---- MODULE Spec2Model ----
(***************************************************************************)
(* BalanceSampler (vedastr/dataloaders/samplers/dist_balance_sampler.py).  *)
(*                                                                         *)
(* One sampler object lives in each process of a distributed run; the      *)
(* processes share the dataset and the constructor arguments and differ    *)
(* in rank.  Ratios are rationals with denominator RatioDen, eps is a      *)
(* rational with denominator EpsDen; index lists are sequences of 0-based  *)
(* dataset indices.  The two generators (numpy's and the standard          *)
(* library's) are deterministic state machines: a state, a seeding         *)
(* function and a step function.                                           *)
(***************************************************************************)
EXTENDS Integers, Sequences, FiniteSets, TLC

VARIABLES dataset, args, num_replicas, samplers, np_random, py_random

vars == <<dataset, args, num_replicas, samplers, np_random, py_random>>

\* ---------------------------------------------------------------- bounds
RatioDen == 4
EpsDen == 10
DefaultEps == 1
DefaultSeed == 0
MaxRanges == 2
MaxDatasetLen == 4
MaxSamplesPerGpu == 1
MaxReplicas == 2
MaxEpoch == 1
AllocMaxRanges == 4
AllocMaxBatch == 6
AllocMaxEps == 3
DistMaxRanges == 2
DistMaxDatasetLen == 3
DistMaxReplicas == 3

\* ---------------------------------------------------------------- helpers
RECURSIVE Sum(_)
Sum(s) == IF s = <<>> THEN 0 ELSE Head(s) + Sum(Tail(s))

RECURSIVE Flatten(_)
Flatten(ss) == IF ss = <<>> THEN <<>> ELSE Head(ss) \o Flatten(Tail(ss))

Min(a, b) == IF a < b THEN a ELSE b

Abs(x) == IF x < 0 THEN -x ELSE x

\* math.ceil(a / b) for integers a and b > 0
CeilDiv(a, b) == -((-a) \div b)

\* Python's l[a:b] for 0 <= a, 0 <= b
Slice(l, a, b) == SubSeq(l, a + 1, Min(b, Len(l)))

\* list(range(a, b))
RECURSIVE Range(_, _)
Range(a, b) == IF a >= b THEN <<>> ELSE <<a>> \o Range(a + 1, b)

\* all sequences of k naturals that sum to n
RECURSIVE Compositions(_, _)
Compositions(n, k) ==
    IF k = 0 THEN (IF n = 0 THEN {<<>>} ELSE {})
    ELSE UNION {{<<x>> \o c : c \in Compositions(n - x, k - 1)} : x \in 0..n}

\* all sequences of k positive lengths that sum to at most m
Lengths(m, k) ==
    UNION {{[i \in 1..k |-> c[i] + 1] : c \in Compositions(n - k, k)} : n \in k..m}

\* np.cumsum: the data_range of a dataset whose parts have these lengths
RECURSIVE CumSum(_, _)
CumSum(ls, acc) ==
    IF ls = <<>> THEN <<>>
    ELSE <<acc + Head(ls)>> \o CumSum(Tail(ls), acc + Head(ls))

\* ---------------------------------------------------------------- allocator
\* int_bs: batch_sizes.astype(int) of ratio * batch_size
int_bs(ratio, batch_size) ==
    [i \in DOMAIN ratio |-> (ratio[i] * batch_size) \div RatioDen]

\* float_bs as it would be were the fractional parts never rounded up
float_bs_floor(ratio, batch_size) == [i \in DOMAIN ratio |-> FALSE]

\* float_bs before the flip: (batch_sizes - int_bs) >= 0.5
float_bs(ratio, batch_size) ==
    [i \in DOMAIN ratio |-> 2 * ((ratio[i] * batch_size) % RatioDen) >= RatioDen]

CountTrue(bs) == Cardinality({i \in DOMAIN bs : bs[i]})

alloc_diff(ratio, batch_size) ==
    batch_size - Sum(int_bs(ratio, batch_size))
               - CountTrue(float_bs(ratio, batch_size))

\* the flip left out
flip_none(fb, diff) == fb

\* float_bs[np.where(float_bs == (diff < 0))[0][:int(abs(diff))]] = (diff >= 0)
flip(fb, diff) ==
    LET cand == {i \in DOMAIN fb : fb[i] = (diff < 0)}
        sel  == {i \in cand : Cardinality({j \in cand : j < i}) < Abs(diff)}
    IN  [i \in DOMAIN fb |-> IF i \in sel THEN (diff >= 0) ELSE fb[i]]

compute_each_batch_size(ratio, batch_size) ==
    LET ib == int_bs(ratio, batch_size)
        fb == flip(float_bs(ratio, batch_size), alloc_diff(ratio, batch_size))
    IN  [i \in DOMAIN ratio |-> ib[i] + (IF fb[i] THEN 1 ELSE 0)]

\* np.sum(br_diffs > eps): some |batch_sizes[i]/batch_size - batch_ratio[i]| > eps
eps_exceeded(bs, ratio, batch_size, eps) ==
    \E i \in DOMAIN bs :
        Abs(bs[i] * RatioDen - ratio[i] * batch_size) * EpsDen
            > eps * batch_size * RatioDen

\* the check for an empty entry left out
has_zero_unchecked(bs) == FALSE

\* 0 in self.batch_sizes
has_zero(bs) == \E i \in DOMAIN bs : bs[i] = 0

\* ---------------------------------------------------------------- generators
\* np.random.seed(x) / random.seed(x): the state a seed selects
rng_seed(x) == x % 32

\* one step of the generator
rng_next(s) == (5 * s + 3) % 32

\* the draw in 0..n-1 that state s yields
rng_below(s, n) == (s \div 4) % n

\* np.random.shuffle(l): Fisher-Yates from the last position down
RECURSIVE shuffle_from(_, _, _)
shuffle_from(l, i, s) ==
    IF i < 2 THEN [list |-> l, state |-> s]
    ELSE LET s2 == rng_next(s)
             j  == rng_below(s2, i) + 1
         IN  shuffle_from([l EXCEPT ![i] = l[j], ![j] = l[i]], i - 1, s2)

np_shuffle(l, s) == shuffle_from(l, Len(l), s)

\* random.sample(population, k): k draws without replacement from a pool
RECURSIVE sample_from(_, _, _, _, _)
sample_from(pool, n, k, s, acc) ==
    IF k = 0 THEN [list |-> acc, state |-> s]
    ELSE LET s2 == rng_next(s)
             j  == rng_below(s2, n) + 1
         IN  sample_from([pool EXCEPT ![j] = pool[n]], n - 1, k - 1, s2,
                         Append(acc, pool[j]))

random_sample(population, k, s) == sample_from(population, Len(population), k, s, <<>>)

\* ---------------------------------------------------------------- _generate_indices
\* the loop over samples_range: one list per range, shuffled when shuffle is set
RECURSIVE build_ranges(_, _, _, _, _)
build_ranges(data_range, idx, shuffle, np, acc) ==
    IF idx > Len(data_range) THEN [lists |-> acc, np |-> np]
    ELSE LET start == IF idx = 1 THEN 0 ELSE data_range[idx - 1]
             temp  == Range(start, data_range[idx])
             sh    == IF shuffle THEN np_shuffle(temp, np)
                      ELSE [list |-> temp, state |-> np]
         IN  build_ranges(data_range, idx + 1, shuffle, sh.state,
                          Append(acc, sh.list))

\* the index of a range with the largest len / batch size (max(pratios))
max_pratio(lens, bs) ==
    CHOOSE m \in DOMAIN lens : \A j \in DOMAIN lens : lens[m] * bs[j] >= lens[j] * bs[m]

\* the index of a range with the smallest len / batch size (min(pratios))
min_pratio(lens, bs) ==
    CHOOSE m \in DOMAIN lens : \A j \in DOMAIN lens : lens[m] * bs[j] <= lens[j] * bs[m]

\* need_len of the oversample branch: ceil(max(pratios) * size)
need_len_over(lens, bs) ==
    LET m == max_pratio(lens, bs)
    IN  [i \in DOMAIN bs |-> CeilDiv(lens[m] * bs[i], bs[m])]

\* need_len of the downsample branch: ceil(min(pratios) * size)
need_len_down(lens, bs) ==
    LET m == min_pratio(lens, bs)
    IN  [i \in DOMAIN bs |-> CeilDiv(lens[m] * bs[i], bs[m])]

\* the inner loop of _oversample: total_nums more copies of init_index
RECURSIVE repeat_index(_, _, _, _, _)
repeat_index(index, init_index, n, shuffle, np) ==
    IF n <= 0 THEN [list |-> index, state |-> np]
    ELSE LET sh == IF shuffle THEN np_shuffle(init_index, np)
                   ELSE [list |-> init_index, state |-> np]
         IN  repeat_index(index \o sh.list, init_index, n - 1, shuffle, sh.state)

\* _oversample: every range grown to need_len[idx]
RECURSIVE oversample_from(_, _, _, _, _, _, _)
oversample_from(indices, need_len, idx, shuffle, np, py, acc) ==
    IF idx > Len(indices) THEN [lists |-> acc, np |-> np, py |-> py]
    ELSE LET index        == indices[idx]
             current_nums == Len(index)
             need_num     == need_len[idx] - current_nums
             total_nums   == need_num \div current_nums
             mod_nums     == need_num % current_nums
             rep          == repeat_index(index, index, total_nums, shuffle, np)
             smp          == random_sample(rep.list, mod_nums, py)
         IN  oversample_from(indices, need_len, idx + 1, shuffle, rep.state,
                             smp.state, Append(acc, rep.list \o smp.list))

\* _downsample: np.random.sample(index, need_len[idx]) is called with two
\* positional arguments; numpy's random_sample takes one (size), so the call
\* raises TypeError before any list is produced
downsample_raises(indices, need_len) == Len(indices) > 0

generate_indices(data_range, bs, flags, np, py) ==
    LET built == build_ranges(data_range, 1, flags.shuffle, np, <<>>)
        lens  == [i \in DOMAIN built.lists |-> Len(built.lists[i])]
        n0    == data_range[Len(data_range)]
    IN  IF flags.oversample
        THEN LET need == need_len_over(lens, bs)
                 o    == oversample_from(built.lists, need, 1, flags.shuffle,
                                         built.np, py, <<>>)
             IN  [error |-> "", indices_ |-> o.lists, num_samples |-> Sum(need),
                  np |-> o.np, py |-> o.py]
        ELSE IF flags.downsample
        THEN IF downsample_raises(built.lists, need_len_down(lens, bs))
             THEN [error |-> "TypeError", indices_ |-> <<>>, num_samples |-> n0,
                   np |-> built.np, py |-> py]
             ELSE [error |-> "", indices_ |-> built.lists,
                   num_samples |-> Sum(need_len_down(lens, bs)),
                   np |-> built.np, py |-> py]
        ELSE [error |-> "", indices_ |-> built.lists, num_samples |-> n0,
              np |-> built.np, py |-> py]

\* ---------------------------------------------------------------- sharding
\* drop_last ignored
single_rank_pad_only(n, replicas, drop_last) == CeilDiv(n, replicas)

single_rank_num_samples(n, replicas, drop_last) ==
    IF drop_last /\ n % replicas # 0
    THEN CeilDiv(n - replicas, replicas)
    ELSE CeilDiv(n, replicas)

\* ---------------------------------------------------------------- __iter__
\* one balanced batch: for each range its slice [b*size, (b+1)*size)
batch_indices(indices_, bs, b) ==
    Flatten([i \in DOMAIN bs |-> Slice(indices_[i], b * bs[i], (b + 1) * bs[i])])

\* the tails left out
assemble_no_tail(indices_, bs, total_nums) ==
    Flatten([b \in 1..total_nums |-> batch_indices(indices_, bs, b - 1)])

\* total_nums batches, then each range's tail from total_nums * size on
assemble(indices_, bs, total_nums) ==
    Flatten([b \in 1..total_nums |-> batch_indices(indices_, bs, b - 1)])
      \o Flatten([i \in DOMAIN bs |->
                    Slice(indices_[i], total_nums * bs[i], Len(indices_[i]))])

\* pad once from the start of the list, or truncate
fit(indices, total_size) ==
    IF total_size > Len(indices)
    THEN indices \o Slice(indices, 0, total_size - Len(indices))
    ELSE Slice(indices, 0, total_size)

\* indices[rank:total_size:num_replicas]
subsample(indices, rank, total_size, replicas) ==
    LET stop == Min(total_size, Len(indices))
        n    == IF stop > rank THEN CeilDiv(stop - rank, replicas) ELSE 0
    IN  [k \in 1..n |-> indices[rank + (k - 1) * replicas + 1]]

\* ---------------------------------------------------------------- state
\* a sampler object before __init__ has run; pc, error, indices_, indices and
\* result record how the last call ended and what it computed
NewSampler ==
    [pc |-> "new", error |-> "", batch_size |-> 0, batch_sizes |-> <<>>,
     num_samples |-> 0, single_rank_num_samples |-> 0, total_size |-> 0,
     epoch |-> 0, indices_ |-> <<>>, indices |-> <<>>, result |-> <<>>]

Ranks == DOMAIN samplers

\* the state of a process's generators when its sampler is built: whatever the
\* process drew before, which differs from process to process
ProcessRng(r) == rng_seed(7 + 11 * r)

Flags ==
    [shuffle : BOOLEAN, oversample : BOOLEAN, downsample : BOOLEAN,
     shuffle_batch : BOOLEAN, drop_last : BOOLEAN]

\* datasets of at most k parts of at most m samples each, with their ratios
Datasets(k, m) ==
    UNION {{[data_range |-> CumSum(ls, 0), batch_ratio |-> r] :
              ls \in Lengths(m, n), r \in Compositions(RatioDen, n)} : n \in 1..k}

\* ---------------------------------------------------------------- __init__
Construct(r) ==
    /\ samplers[r].pc = "new"
    /\ LET self       == samplers[r]
           batch_size == args.samples_per_gpu * num_replicas
           bs         == compute_each_batch_size(dataset.batch_ratio, batch_size)
           base       == [self EXCEPT !.batch_size = batch_size, !.batch_sizes = bs]
           failed(e)  == [base EXCEPT !.pc = "failed", !.error = e]
       IN  IF eps_exceeded(bs, dataset.batch_ratio, batch_size, args.eps)
           THEN /\ samplers' = [samplers EXCEPT ![r] = failed("AssertionError: eps")]
                /\ UNCHANGED <<np_random, py_random>>
           ELSE IF has_zero(bs)
           THEN /\ samplers' = [samplers EXCEPT ![r] = failed("AssertionError: zero")]
                /\ UNCHANGED <<np_random, py_random>>
           ELSE IF Sum(bs) # batch_size
           THEN /\ samplers' = [samplers EXCEPT ![r] = failed("AssertionError: sum")]
                /\ UNCHANGED <<np_random, py_random>>
           ELSE LET g == generate_indices(dataset.data_range, bs, args,
                                          np_random[r], py_random[r])
                    single == single_rank_num_samples(g.num_samples, num_replicas,
                                                      args.drop_last)
                IN  /\ np_random' = [np_random EXCEPT ![r] = g.np]
                    /\ py_random' = [py_random EXCEPT ![r] = g.py]
                    /\ samplers' = [samplers EXCEPT ![r] =
                         IF g.error # ""
                         THEN [failed(g.error) EXCEPT !.num_samples = g.num_samples]
                         ELSE [base EXCEPT !.pc = "ready",
                                           !.num_samples = g.num_samples,
                                           !.indices_ = g.indices_,
                                           !.single_rank_num_samples = single,
                                           !.total_size = single * num_replicas]]
    /\ UNCHANGED <<dataset, args, num_replicas>>

\* ---------------------------------------------------------------- set_epoch
\* self.epoch = epoch; what the last __iter__ computed is gone by then
SetEpoch(r, e) ==
    /\ samplers[r].pc \in {"ready", "iterated", "iter_failed"}
    /\ samplers' = [samplers EXCEPT ![r].epoch = e, ![r].pc = "ready",
                                    ![r].error = "", ![r].indices_ = <<>>,
                                    ![r].indices = <<>>, ![r].result = <<>>]
    /\ UNCHANGED <<dataset, args, num_replicas, np_random, py_random>>

\* ---------------------------------------------------------------- __iter__
\* the generator state __iter__ hands to _generate_indices
iter_seed(self, flags, seed, state) ==
    IF flags.shuffle \/ flags.oversample \/ flags.downsample
    THEN rng_seed(seed + self.epoch)
    ELSE state

Iterate(r) ==
    /\ samplers[r].pc \in {"ready", "iterated", "iter_failed"}
    /\ LET self       == samplers[r]
           g          == generate_indices(dataset.data_range, self.batch_sizes, args,
                             iter_seed(self, args, args.seed, np_random[r]),
                             iter_seed(self, args, args.seed, py_random[r]))
           total_nums == self.total_size \div self.batch_size
           indices    == fit(assemble(g.indices_, self.batch_sizes, total_nums),
                             self.total_size)
           result     == subsample(indices, r, self.total_size, num_replicas)
           seen       == [self EXCEPT !.num_samples = g.num_samples,
                                      !.indices_ = g.indices_,
                                      !.indices = indices]
       IN  /\ np_random' = [np_random EXCEPT ![r] = g.np]
           /\ py_random' = [py_random EXCEPT ![r] = g.py]
           /\ samplers' = [samplers EXCEPT ![r] =
                IF Len(indices) # self.total_size
                THEN [seen EXCEPT !.pc = "iter_failed", !.result = <<>>,
                                  !.error = "AssertionError: total_size"]
                ELSE IF Len(result) # self.single_rank_num_samples
                THEN [seen EXCEPT !.pc = "iter_failed", !.result = <<>>,
                                  !.error = "AssertionError: single_rank_num_samples"]
                ELSE [seen EXCEPT !.pc = "iterated", !.result = result,
                                  !.error = ""]]
    /\ UNCHANGED <<dataset, args, num_replicas>>

\* ---------------------------------------------------------------- specifications
\* one process of a run of num_replicas processes
Init ==
    /\ dataset \in Datasets(MaxRanges, MaxDatasetLen)
    /\ num_replicas \in 1..MaxReplicas
    /\ \E f \in Flags, spg \in 1..MaxSamplesPerGpu, sd \in {DefaultSeed} :
         args = [samples_per_gpu |-> spg, shuffle |-> f.shuffle,
                 oversample |-> f.oversample, downsample |-> f.downsample,
                 shuffle_batch |-> f.shuffle_batch, eps |-> DefaultEps,
                 seed |-> sd, drop_last |-> f.drop_last]
    /\ \E rank \in 0..(num_replicas - 1) : samplers = [r \in {rank} |-> NewSampler]
    /\ np_random = [r \in DOMAIN samplers |-> ProcessRng(r)]
    /\ py_random = [r \in DOMAIN samplers |-> ProcessRng(r)]

ConstructSome == \E r \in Ranks : Construct(r)

SetEpochSome == \E r \in Ranks : \E e \in 0..MaxEpoch : SetEpoch(r, e)

IterateSome == \E r \in Ranks : Iterate(r)

Next == ConstructSome \/ SetEpochSome \/ IterateSome

Spec == Init /\ [][Next]_vars

\* the allocator and the constructor's validation, over more ranges and
\* larger batches: one process, ranges of one sample each
InitAlloc ==
    /\ \E n \in 1..AllocMaxRanges :
         \E ratio \in Compositions(RatioDen, n) :
            dataset = [data_range |-> Range(1, n + 1), batch_ratio |-> ratio]
    /\ num_replicas = 1
    /\ \E spg \in 1..AllocMaxBatch, e \in 0..AllocMaxEps :
         args = [samples_per_gpu |-> spg, shuffle |-> FALSE, oversample |-> FALSE,
                 downsample |-> FALSE, shuffle_batch |-> FALSE, eps |-> e,
                 seed |-> DefaultSeed, drop_last |-> FALSE]
    /\ samplers = [r \in {0} |-> NewSampler]
    /\ np_random = [r \in {0} |-> 0]
    /\ py_random = [r \in {0} |-> 0]

NextAlloc == ConstructSome

SpecAlloc == InitAlloc /\ [][NextAlloc]_vars

\* every process of a run: the same dataset and arguments, one sampler per rank
InitDist ==
    /\ dataset \in Datasets(DistMaxRanges, DistMaxDatasetLen)
    /\ num_replicas \in 1..DistMaxReplicas
    /\ \E sh \in BOOLEAN, ov \in BOOLEAN, dl \in BOOLEAN, sd \in {DefaultSeed} :
         args = [samples_per_gpu |-> 1, shuffle |-> sh, oversample |-> ov,
                 downsample |-> FALSE, shuffle_batch |-> FALSE, eps |-> DefaultEps,
                 seed |-> sd, drop_last |-> dl]
    /\ samplers = [r \in 0..(num_replicas - 1) |-> NewSampler]
    /\ np_random = [r \in DOMAIN samplers |-> ProcessRng(r)]
    /\ py_random = [r \in DOMAIN samplers |-> ProcessRng(r)]

SpecDist == InitDist /\ [][Next]_vars

\* ---------------------------------------------------------------- observers
\* samplers whose constructor returned
Built(r) == samplers[r].pc \in {"ready", "iterated", "iter_failed"}

\* samplers whose last __iter__ assembled a stream
Assembled(r) == samplers[r].pc \in {"iterated", "iter_failed"}

NumRanges == Len(dataset.data_range)

DatasetLen == dataset.data_range[NumRanges]

RangeStart(i) == IF i = 1 THEN 0 ELSE dataset.data_range[i - 1]

RangeLen(i) == dataset.data_range[i] - RangeStart(i)

\* the range a dataset index belongs to
RangeOf(v) == CHOOSE i \in 1..NumRanges : RangeStart(i) <= v /\ v < dataset.data_range[i]

\* how often v occurs in the sequence s
Occurrences(s, v) == Cardinality({p \in DOMAIN s : s[p] = v})

\* sum over the ranges of |v[i] - ratio[i] * batch_size|, in units of 1/RatioDen
Deviation(v, batch_size) ==
    Sum([i \in DOMAIN v |-> Abs(v[i] * RatioDen - dataset.batch_ratio[i] * batch_size)])

\* the range with the largest (smallest) length per batch slot, and the length
\* range i must have to keep pace with it
Fullest(bs) ==
    CHOOSE m \in 1..NumRanges :
        \A j \in 1..NumRanges : RangeLen(m) * bs[j] >= RangeLen(j) * bs[m]

Scarcest(bs) ==
    CHOOSE m \in 1..NumRanges :
        \A j \in 1..NumRanges : RangeLen(m) * bs[j] <= RangeLen(j) * bs[m]

NeedUp(bs, i) == CeilDiv(RangeLen(Fullest(bs)) * bs[i], bs[Fullest(bs)])

NeedDown(bs, i) == CeilDiv(RangeLen(Scarcest(bs)) * bs[i], bs[Scarcest(bs)])

\* ---------------------------------------------------------------- C1
\* C1: every __iter__ of a constructed sampler passes both length assertions:
\* the assembled, padded or truncated stream has length total_size and the
\* rank's slice has length single_rank_num_samples.
C1_IterateLength ==
    \A r \in Ranks :
        /\ samplers[r].pc # "iter_failed"
        /\ samplers[r].pc = "iterated" =>
              /\ Len(samplers[r].indices) = samplers[r].total_size
              /\ Len(samplers[r].result) = samplers[r].single_rank_num_samples

\* ---------------------------------------------------------------- C2
\* C2: in the stream of an __iter__, each of the first total_size // batch_size
\* windows of batch_size positions holds exactly batch_sizes[i] indices of
\* range i, whatever the flags.
C2_HeadBalanced ==
    \A r \in Ranks :
        samplers[r].pc = "iterated" =>
            LET self == samplers[r]
                nb   == self.total_size \div self.batch_size
            IN  \A b \in 0..(nb - 1), i \in 1..NumRanges :
                    Cardinality({p \in (b * self.batch_size + 1)..((b + 1) * self.batch_size) :
                                    RangeOf(self.indices[p]) = i})
                        = self.batch_sizes[i]

\* ---------------------------------------------------------------- C3
\* C3: the batch sizes the allocator returns sum to batch_size exactly, so the
\* constructor's assertion on the sum never fails.
C3_SumIsBatchSize ==
    \A r \in Ranks :
        samplers[r].pc # "new" =>
            /\ Sum(samplers[r].batch_sizes) = samplers[r].batch_size
            /\ samplers[r].error # "AssertionError: sum"

\* a constructor ran on a ratio whose half-up rounding was off by two
C3_Witness ==
    \E r \in Ranks :
        /\ samplers[r].pc # "new"
        /\ Abs(samplers[r].batch_size
                 - Sum([i \in 1..NumRanges |->
                          (2 * dataset.batch_ratio[i] * samplers[r].batch_size + RatioDen)
                             \div (2 * RatioDen)])) >= 2

\* ---------------------------------------------------------------- C5
\* C5: the constructor fails when a batch size is 0 and when some
\* batch_sizes[i] / batch_size is further than eps from the requested ratio;
\* a constructed sampler has every batch size >= 1 and every deviation <= eps.
C5_Validated ==
    \A r \in Ranks :
        samplers[r].pc # "new" =>
            LET self == samplers[r]
                zero == \E i \in 1..NumRanges : self.batch_sizes[i] < 1
                far  == \E i \in 1..NumRanges :
                           Abs(self.batch_sizes[i] * RatioDen
                                 - dataset.batch_ratio[i] * self.batch_size) * EpsDen
                              > args.eps * self.batch_size * RatioDen
            IN  /\ zero => self.pc = "failed"
                /\ far => self.pc = "failed"
                /\ Built(r) => ~zero /\ ~far

\* a constructor refused an allocation with an empty entry whose ratios were
\* within eps
C5_Witness ==
    \E r \in Ranks :
        /\ samplers[r].pc = "failed"
        /\ samplers[r].error = "AssertionError: zero"

\* ---------------------------------------------------------------- C9
\* C9 as claimed: the allocator's vector has the least total deviation from
\* ratio * batch_size among the vectors of naturals that sum to batch_size.
C9_MinimalDeviation ==
    \A r \in Ranks :
        samplers[r].pc # "new" =>
            \A v \in Compositions(samplers[r].batch_size, NumRanges) :
                Deviation(samplers[r].batch_sizes, samplers[r].batch_size)
                    <= Deviation(v, samplers[r].batch_size)

\* round-half-up of ratio[i] * batch_size
HalfUp(batch_size) ==
    [i \in 1..NumRanges |->
        (2 * dataset.batch_ratio[i] * batch_size + RatioDen) \div (2 * RatioDen)]

\* C9 as amended: every entry is the floor or the floor plus one of
\* ratio[i] * batch_size and the entries sum to batch_size; when rounding half
\* up already sums to batch_size that rounding is returned and its total
\* deviation is least; otherwise the roundings flipped are the first in range
\* order.
C9_FloorOrCeil ==
    \A r \in Ranks :
        samplers[r].pc # "new" =>
            LET self == samplers[r]
                B    == self.batch_size
            IN  /\ \A i \in 1..NumRanges :
                      self.batch_sizes[i] - ((dataset.batch_ratio[i] * B) \div RatioDen)
                          \in {0, 1}
                /\ Sum(self.batch_sizes) = B
                /\ Sum(HalfUp(B)) = B =>
                      /\ self.batch_sizes = HalfUp(B)
                      /\ \A v \in Compositions(B, NumRanges) :
                            Deviation(self.batch_sizes, B) <= Deviation(v, B)
                /\ Sum(HalfUp(B)) # B =>
                      LET floor(i) == (dataset.batch_ratio[i] * B) \div RatioDen
                          up(i)    == HalfUp(B)[i] - floor(i)
                          flipped(i) == self.batch_sizes[i] # HalfUp(B)[i]
                      IN  \A i, j \in 1..NumRanges :
                              (i < j /\ up(i) = up(j) /\ flipped(j)) => flipped(i)

\* a constructor ran on a ratio where a flip was needed and the flipped entry
\* was not the one with the fractional part nearest one half
C9_Witness ==
    \E r \in Ranks :
        /\ samplers[r].pc # "new"
        /\ Sum(HalfUp(samplers[r].batch_size)) # samplers[r].batch_size
        /\ \E v \in Compositions(samplers[r].batch_size, NumRanges) :
              Deviation(v, samplers[r].batch_size)
                  < Deviation(samplers[r].batch_sizes, samplers[r].batch_size)

\* ---------------------------------------------------------------- C4
\* the stream put back together from the ranks' results: position p comes
\* from rank p mod num_replicas, element p div num_replicas
Interleaved ==
    [p \in 1..(Len(samplers[0].result) * num_replicas) |->
        samplers[(p - 1) % num_replicas].result[((p - 1) \div num_replicas) + 1]]

\* C4, the part about the streams: samplers that differ only in rank assemble
\* the same stream in the same epoch, whatever their processes drew before.
C4_SameStream ==
    \A r1, r2 \in Ranks :
        (/\ Assembled(r1)
         /\ Assembled(r2)
         /\ samplers[r1].epoch = samplers[r2].epoch)
        => samplers[r1].indices = samplers[r2].indices

\* C4: in every epoch every rank's __iter__ returns a slice; the samplers
\* assemble the same stream; the slice of each is the stream's positions rank,
\* rank + num_replicas, ...; and the slices of all the ranks, interleaved, are
\* the stream, of length total_size.
C4_SlicesReconstructStream ==
    /\ C4_SameStream
    /\ \A r \in Ranks :
          /\ samplers[r].pc # "iter_failed"
          /\ samplers[r].pc = "iterated" =>
                \A k \in DOMAIN samplers[r].result :
                    samplers[r].result[k]
                        = samplers[r].indices[r + (k - 1) * num_replicas + 1]
    /\ (\A r \in Ranks : samplers[r].pc = "iterated" /\ samplers[r].epoch = samplers[0].epoch)
          => /\ Interleaved = samplers[0].indices
             /\ Len(Interleaved) = samplers[0].total_size

\* two or more ranks iterated in epoch 1 over a shuffled stream
C4_AllRanksIterated ==
    /\ num_replicas >= 2
    /\ args.shuffle
    /\ \A r \in Ranks : samplers[r].pc = "iterated" /\ samplers[r].epoch = 1
    /\ samplers[0].indices # Range(0, Len(samplers[0].indices))
    /\ samplers[0].total_size >= 2

\* ---------------------------------------------------------------- C6
\* C6: with oversample every range's list leaves _generate_indices with
\* exactly need_i = ceil(max(pratios) * bs_i) >= len_i entries; with downsample
\* alone every range's list leaves it with exactly
\* need_i = ceil(min(pratios) * bs_i) <= len_i distinct entries of that range.
C6_ResampledLengths ==
    \A r \in Ranks :
        LET self   == samplers[r]
            bs     == self.batch_sizes
            up(i)   == NeedUp(bs, i)
            down(i) == NeedDown(bs, i)
            ran     == self.pc # "new" /\ self.error \notin
                          {"AssertionError: eps", "AssertionError: zero", "AssertionError: sum"}
        IN  /\ (args.oversample /\ ran /\ self.indices_ # <<>>) =>
                  \A i \in 1..NumRanges :
                      /\ Len(self.indices_[i]) = up(i)
                      /\ up(i) >= RangeLen(i)
            /\ (args.downsample /\ ~args.oversample /\ ran) =>
                  /\ self.error # "TypeError"
                  /\ self.indices_ # <<>> =>
                        \A i \in 1..NumRanges :
                            /\ Len(self.indices_[i]) = down(i)
                            /\ down(i) <= RangeLen(i)
                            /\ \A p \in DOMAIN self.indices_[i] :
                                  /\ RangeOf(self.indices_[i][p]) = i
                                  /\ Occurrences(self.indices_[i], self.indices_[i][p]) = 1

\* ---------------------------------------------------------------- C7
\* C7: total_size = single_rank_num_samples * num_replicas; with drop_last it
\* is the largest multiple of num_replicas not above the natural sample count,
\* without it the smallest not below; 17 samples on 4 replicas give 4 and 16
\* with drop_last, 5 and 20 without.
C7_TotalSizeValue ==
    /\ \A r \in Ranks :
          Built(r) =>
              LET self == samplers[r]
                  n    == IF args.oversample
                          THEN Sum([i \in 1..NumRanges |-> NeedUp(self.batch_sizes, i)])
                          ELSE DatasetLen
              IN  /\ self.total_size = self.single_rank_num_samples * num_replicas
                  /\ self.total_size % num_replicas = 0
                  /\ self.num_samples = n
                  /\ args.drop_last =>
                        self.total_size <= n /\ n < self.total_size + num_replicas
                  /\ ~args.drop_last =>
                        n <= self.total_size /\ self.total_size < n + num_replicas
    /\ single_rank_num_samples(17, 4, TRUE) = 4
    /\ single_rank_num_samples(17, 4, FALSE) = 5

\* C7: set_epoch and __iter__ leave total_size and single_rank_num_samples as
\* the constructor set them.
C7_Frozen ==
    \A r \in Ranks :
        Built(r) =>
            /\ samplers'[r].total_size = samplers[r].total_size
            /\ samplers'[r].single_rank_num_samples = samplers[r].single_rank_num_samples

C7_TotalSize == []C7_TotalSizeValue /\ [][C7_Frozen]_vars

\* a sampler that drops the last samples of a dataset its replicas do not
\* divide has iterated in epoch 1
C7_Witness ==
    \E r \in Ranks :
        /\ samplers[r].pc = "iterated"
        /\ samplers[r].epoch = 1
        /\ args.drop_last
        /\ samplers[r].num_samples % num_replicas # 0
        /\ samplers[r].total_size > 0

\* ---------------------------------------------------------------- C8
\* C8: with shuffle_batch set, the indices of a batch do not come in the fixed
\* order range 1, range 2, ...: some batch holds an index of a later range
\* before an index of an earlier one.
C8_BatchOrderShuffled ==
    \A r \in Ranks :
        LET self == samplers[r]
            nb   == self.total_size \div self.batch_size
        IN  (/\ self.pc = "iterated"
             /\ args.shuffle_batch
             /\ NumRanges >= 2
             /\ nb >= 1)
            => \E b \in 0..(nb - 1) :
                  \E p, q \in (b * self.batch_size + 1)..((b + 1) * self.batch_size) :
                      p < q /\ RangeOf(self.indices[p]) > RangeOf(self.indices[q])

\* ---------------------------------------------------------------- C10
\* C10: without oversample and downsample the stream of an __iter__ holds
\* every dataset index at least once when drop_last is off, at most once when
\* it is on, and is a permutation of the dataset when the dataset length is a
\* multiple of num_replicas.
C10_NothingLost ==
    \A r \in Ranks :
        (Assembled(r) /\ ~args.oversample /\ ~args.downsample) =>
            LET s == samplers[r].indices
            IN  /\ \A p \in DOMAIN s : s[p] \in 0..(DatasetLen - 1)
                /\ ~args.drop_last =>
                      \A v \in 0..(DatasetLen - 1) : Occurrences(s, v) >= 1
                /\ args.drop_last =>
                      \A v \in 0..(DatasetLen - 1) : Occurrences(s, v) <= 1
                /\ DatasetLen % num_replicas = 0 =>
                      /\ Len(s) = DatasetLen
                      /\ \A v \in 0..(DatasetLen - 1) : Occurrences(s, v) = 1

\* an unresampled, shuffled stream was assembled although a range was shorter
\* than the batches asked of it
C10_Witness ==
    \E r \in Ranks :
        /\ samplers[r].pc = "iterated"
        /\ ~args.oversample /\ ~args.downsample /\ args.shuffle
        /\ DatasetLen % num_replicas = 0
        /\ \E i \in 1..NumRanges :
              RangeLen(i) < (samplers[r].total_size \div samplers[r].batch_size)
                               * samplers[r].batch_sizes[i]

====
